---- MODULE Spec2Model ----
(***************************************************************************)
(* Model of zcrab: the retention judgement engine (src/src/policy.rs), the *)
(* age-bucket checker the daemon links (src/src/tomato.rs) and the daemon  *)
(* loop (src/src/main.rs) over the snapshot store (src/src/zfs.rs).        *)
(*                                                                         *)
(* Time is counted in whole ticks; a Duration and a DateTime are naturals. *)
(* A snapshot is a record [name, created]; names are unique in a listing.  *)
(***************************************************************************)
EXTENDS Integers, Sequences, FiniteSets, TLC

VARIABLES
    policy,      \* engine input: RetentionPolicy.0, a sequence of rules
    snapshots,   \* engine input: the snapshot list, newest first
    now,         \* the wall clock (Utc::now())
    res,         \* the engine call in progress: its name, arguments and return value
    first,       \* the Judgement of the first evaluation, made when the list was taken
    sandbox,     \* daemon: Args::sandbox
    store,       \* the pool: for each dataset its snapshots, newest first
    conf,        \* the pool: the retention policy set on each dataset
    pc,          \* daemon: where the loop stands
    datasets,    \* daemon: the Vec<ConfiguredDataSet> fetched this cycle
    cursor,      \* daemon: the dataset the running for-loop reaches next
    pending,     \* daemon: the rejects of the current dataset not yet visited
    wokeAt,      \* the clock when thread::sleep returned in this cycle
    slept,       \* the duration handed to thread::sleep in this cycle
    wizard,      \* configure: where start() stands and the Configured it builds
    created,     \* the datasets zfs::snapshot was called for in this cycle
    destroyed    \* the snapshots zfs::destroy_snapshot was called for in this cycle

engine == <<policy, snapshots, res, first>>

daemonVars == <<sandbox, store, conf, pc, datasets, cursor, pending, wokeAt, slept,
               wizard, created, destroyed>>

vars == <<policy, snapshots, now, res, first,
          sandbox, store, conf, pc, datasets, cursor, pending, wokeAt, slept,
          wizard, created, destroyed>>

----------------------------------------------------------------------------
(* Bounds of the model *)

MaxTime == 3       \* creation timestamps lie in 0..MaxTime
MaxSnaps == 3      \* longest snapshot list
MaxPeriod == 2     \* rule periods lie in 1..MaxPeriod
MaxCopies == 3     \* retained_copies lies in 0..MaxCopies
MaxRules == 2      \* most rules in a policy

\* the clock runs for NowSpan ticks after the listing was taken at MaxTime
NowSpan == 1

MaxNow == MaxTime + NowSpan

----------------------------------------------------------------------------
(* Data types *)

None == [some |-> FALSE, val |-> 0]
Some(v) == [some |-> TRUE, val |-> v]

RetentionRule == [snapshot_period : 1..MaxPeriod, retained_copies : 0..MaxCopies]

SnapshotMetadata(n, t) == [name |-> n, created |-> t]

Range(s) == {s[i] : i \in DOMAIN s}

Min(S) == CHOOSE x \in S : \A y \in S : x <= y

Max(S) == CHOOSE x \in S : \A y \in S : x >= y

\* the instant DateTime::from_timestamp_millis(0)
Epoch == 0

----------------------------------------------------------------------------
(* Ordering: SnapshotMetadata is ordered by created, RetentionRule by      *)
(* snapshot_period; slice::sort and sort_by are stable.                    *)

Last(s) == s[Len(s)]

Front(s) == SubSeq(s, 1, Len(s) - 1)

RECURSIVE InsertSnapshot(_, _)
\* x goes behind every element of the sorted s that is not newer than x
InsertSnapshot(s, x) ==
    IF s = <<>> THEN <<x>>
    ELSE IF Last(s).created <= x.created THEN Append(s, x)
    ELSE Append(InsertSnapshot(Front(s), x), Last(s))

RECURSIVE SortOldestFirst(_)
\* snapshots_oldest_first.sort()
SortOldestFirst(snaps) ==
    IF snaps = <<>> THEN <<>>
    ELSE InsertSnapshot(SortOldestFirst(Front(snaps)), Last(snaps))

RECURSIVE InsertRule(_, _)
\* x goes behind every element of the sorted s whose period is not shorter
InsertRule(s, x) ==
    IF s = <<>> THEN <<x>>
    ELSE IF Last(s).snapshot_period >= x.snapshot_period THEN Append(s, x)
    ELSE Append(InsertRule(Front(s), x), Last(s))

RECURSIVE SortLongestFirst(_)
\* rules_longest_resention_first.sort_by(|a, b| b.cmp(a))
SortLongestFirst(rules) ==
    IF rules = <<>> THEN <<>>
    ELSE InsertRule(SortLongestFirst(Front(rules)), Last(rules))

----------------------------------------------------------------------------
(* policy.rs: the per-rule algorithm *)

RECURSIVE SweepStrict(_, _, _, _)
\* Sweep with `>` for `>=`: a snapshot exactly one period after the last
\* considered one does not count
SweepStrict(s, i, watermark, period) ==
    IF i > Len(s) THEN {}
    ELSE IF s[i].created > watermark
         THEN {i} \cup SweepStrict(s, i + 1, s[i].created + period, period)
         ELSE SweepStrict(s, i + 1, watermark, period)

RECURSIVE Sweep(_, _, _, _)
\* The greedy sweep both phases run: the indices i..Len(s) of the snapshots
\* that are at or after the watermark, each moving the watermark to its
\* created + period.
Sweep(s, i, watermark, period) ==
    IF i > Len(s) THEN {}
    ELSE IF s[i].created >= watermark
         THEN {i} \cup Sweep(s, i + 1, s[i].created + period, period)
         ELSE Sweep(s, i + 1, watermark, period)

\* n_considerd of the sweep over snapshots_oldest_first.iter().skip(n)
Considered(s, n, rule) ==
    Cardinality(Sweep(SubSeq(s, n + 1, Len(s)), 1, Epoch, rule.snapshot_period))

\* SkipFirstN with `<` for `<=` in `n_considerd <= rule.retained_copies`
SkipFirstNStrict(s, rule) ==
    LET ok == {n \in 0..(Len(s) - 1) : Considered(s, n, rule) < rule.retained_copies}
    IN  IF ok = {} THEN 0 ELSE Min(ok)

\* SkipFirstN that lets the sweep count one more than retained_copies
SkipFirstNOneMore(s, rule) ==
    LET ok == {n \in 0..(Len(s) - 1) : Considered(s, n, rule) <= rule.retained_copies + 1}
    IN  IF ok = {} THEN 0 ELSE Min(ok)

\* SkipFirstN without the break: the last n whose sweep counts at most
\* retained_copies
SkipFirstNNoBreak(s, rule) ==
    LET ok == {n \in 0..(Len(s) - 1) : Considered(s, n, rule) <= rule.retained_copies}
    IN  IF ok = {} THEN 0 ELSE Max(ok)

\* SkipFirstN that skips the whole list when the loop ends without a break
SkipAllWithoutBreak(s, rule) ==
    LET ok == {n \in 0..(Len(s) - 1) : Considered(s, n, rule) <= rule.retained_copies}
    IN  IF ok = {} THEN Len(s) ELSE Min(ok)

\* skip_first_n: the first n whose sweep counts at most retained_copies,
\* and 0 when the loop ends without a break
SkipFirstN(s, rule) ==
    LET ok == {n \in 0..(Len(s) - 1) : Considered(s, n, rule) <= rule.retained_copies}
    IN  IF ok = {} THEN 0 ELSE Min(ok)

\* not_too_old that skips nothing
NoPhase1(s, rule) == s

\* Phase 1: snapshots_oldest_first.iter().skip(skip_first_n)
not_too_old(s, rule) == SubSeq(s, SkipFirstN(s, rule) + 1, Len(s))

\* Phase 2: the snapshots of the bounded set the sweep removes from to_remove
Kept(s, rule) ==
    LET bounded == not_too_old(s, rule)
    IN  {bounded[i] : i \in Sweep(bounded, 1, Epoch, rule.snapshot_period)}

\* RetentionRule::rejects
rejects(rule, snapshots_oldest_first) ==
    Range(snapshots_oldest_first) \ Kept(snapshots_oldest_first, rule)

\* next_snapshot_in taking the first (oldest) snapshot of the bounded set
NextFromOldest(rule, snaps) ==
    LET bounded == not_too_old(SortOldestFirst(snaps), rule)
    IN  IF bounded = <<>> THEN None
        ELSE LET next_at == Head(bounded).created + rule.snapshot_period
             IN  Some(IF next_at >= now THEN next_at - now ELSE 0)

\* RetentionRule::next_snapshot_in
rule_next_snapshot_in(rule, snaps) ==
    LET bounded == not_too_old(SortOldestFirst(snaps), rule)
    IN  IF bounded = <<>> THEN None
        ELSE LET next_at == Last(bounded).created + rule.snapshot_period
             IN  Some(IF next_at >= now THEN next_at - now ELSE 0)

----------------------------------------------------------------------------
(* policy.rs: composition across the rules of a policy *)

\* JudgeRule that forgets res.rejected.insert(snapshot)
JudgeRuleNoInsert(j, rule, sorted) ==
    LET hit == rejects(rule, sorted) \cap DOMAIN j.retained
        emptied == {s \in hit : j.retained[s] \ {rule} = {}}
    IN  [rejected |-> j.rejected,
         retained |-> [s \in (DOMAIN j.retained) \ emptied |->
                          IF s \in hit THEN j.retained[s] \ {rule}
                                       ELSE j.retained[s]]]

\* JudgeRule that rejects a snapshot as soon as one rule rejects it
JudgeRuleConjunctive(j, rule, sorted) ==
    LET hit == rejects(rule, sorted) \cap DOMAIN j.retained
    IN  [rejected |-> j.rejected \cup hit,
         retained |-> [s \in (DOMAIN j.retained) \ hit |-> j.retained[s]]]

\* the body of `for rule in rules_longest_resention_first` in judge
JudgeRule(j, rule, sorted) ==
    LET hit == rejects(rule, sorted) \cap DOMAIN j.retained
        emptied == {s \in hit : j.retained[s] \ {rule} = {}}
    IN  [rejected |-> j.rejected \cup emptied,
         retained |-> [s \in (DOMAIN j.retained) \ emptied |->
                          IF s \in hit THEN j.retained[s] \ {rule}
                                       ELSE j.retained[s]]]

RECURSIVE JudgeRules(_, _, _)
JudgeRules(j, rules, sorted) ==
    IF rules = <<>> THEN j
    ELSE JudgeRules(JudgeRule(j, Head(rules), sorted), Tail(rules), sorted)

\* judge that lets a snapshot expire once it is older than
\* retained_copies periods of its longest rule
JudgeByAge(rules, snapshots_newest_first) ==
    LET rules_longest_resention_first == SortLongestFirst(rules)
        snapshots_oldest_first == SortOldestFirst(snapshots_newest_first)
        longest == Head(rules_longest_resention_first)
        expired == {s \in Range(snapshots_oldest_first) :
                       now - s.created > longest.snapshot_period * longest.retained_copies}
        start == [rejected |-> expired,
                  retained |-> [s \in Range(snapshots_oldest_first) \ expired |->
                                   Range(rules_longest_resention_first)]]
    IN  JudgeRules(start, rules_longest_resention_first, snapshots_oldest_first)

\* RetentionPolicy::judge
judge(rules, snapshots_newest_first) ==
    LET rules_longest_resention_first == SortLongestFirst(rules)
        snapshots_oldest_first == SortOldestFirst(snapshots_newest_first)
        start == [rejected |-> {},
                  retained |-> [s \in Range(snapshots_oldest_first) |->
                                   Range(rules_longest_resention_first)]]
    IN  JudgeRules(start, rules_longest_resention_first, snapshots_oldest_first)

RECURSIVE MaxDue(_, _, _, _)
\* MinDue taking max() for min()
MaxDue(rules, snaps, i, acc) ==
    IF i > Len(rules) THEN acc
    ELSE LET d == rule_next_snapshot_in(rules[i], snaps)
         IN  MaxDue(rules, snaps, i + 1,
                    IF ~d.some THEN acc
                    ELSE IF ~acc.some \/ d.val > acc.val THEN d ELSE acc)

RECURSIVE MinDue(_, _, _, _)
\* .filter_map(|rule| rule.next_snapshot_in(snapshots)).min(), rule i onwards
MinDue(rules, snaps, i, acc) ==
    IF i > Len(rules) THEN acc
    ELSE LET d == rule_next_snapshot_in(rules[i], snaps)
         IN  MinDue(rules, snaps, i + 1,
                    IF ~d.some THEN acc
                    ELSE IF ~acc.some \/ d.val < acc.val THEN d ELSE acc)

\* RetentionPolicy::next_snapshot_in
policy_next_snapshot_in(rules, snaps) == MinDue(rules, snaps, 1, None)

----------------------------------------------------------------------------
(* policy.rs: parsing a policy string; a string is the sequence of its chars *)

Ok(v) == [ok |-> TRUE, val |-> v]

Err == [ok |-> FALSE, val |-> <<>>]

\* VALID_SYNTAX
VALID_SYNTAX ==
    << [unit |-> "s", secs |-> 1],
       [unit |-> "m", secs |-> 60],
       [unit |-> "h", secs |-> 60 * 60],
       [unit |-> "d", secs |-> 60 * 60 * 24],
       [unit |-> "w", secs |-> 60 * 60 * 24 * 7],
       [unit |-> "y", secs |-> 60 * 60 * 24 * 365] >>

Digits == <<"0", "1", "2", "3", "4", "5", "6", "7", "8", "9">>

DigitValue(c) == (CHOOSE i \in DOMAIN Digits : Digits[i] = c) - 1

RECURSIVE Decimal(_)
Decimal(str) ==
    IF str = <<>> THEN 0 ELSE 10 * Decimal(Front(str)) + DigitValue(Last(str))

\* str.parse::<usize>() that reads the empty string as 0
parse_usize_or_zero(str) ==
    IF \E i \in DOMAIN str : str[i] \notin Range(Digits) THEN Err
    ELSE Ok(Decimal(str))

\* str.parse::<usize>(): one or more decimal digits (the strings here are
\* too short to overflow)
parse_usize(str) ==
    IF str = <<>> \/ \E i \in DOMAIN str : str[i] \notin Range(Digits) THEN Err
    ELSE Ok(Decimal(str))

\* str::split_once(c): the parts before and after the first c
split_once(str, c) ==
    LET at == {i \in DOMAIN str : str[i] = c}
    IN  IF at = {} THEN None
        ELSE Some(<<SubSeq(str, 1, Min(at) - 1), SubSeq(str, Min(at) + 1, Len(str))>>)

RECURSIVE rule_from_unit(_, _)
\* the loop of RetentionRule::from_str over VALID_SYNTAX, from entry n onwards
rule_from_unit(rule, n) ==
    IF n > Len(VALID_SYNTAX) THEN Err
    ELSE LET parts == split_once(rule, VALID_SYNTAX[n].unit)
         IN  IF ~parts.some THEN rule_from_unit(rule, n + 1)
             ELSE LET unit_amount == parse_usize(parts.val[1])
                      retained_copies == parse_usize(parts.val[2])
                  IN  IF ~unit_amount.ok \/ ~retained_copies.ok THEN Err
                      ELSE Ok([snapshot_period |-> VALID_SYNTAX[n].secs * unit_amount.val,
                               retained_copies |-> retained_copies.val])

\* impl FromStr for RetentionRule
rule_from_str(rule) == rule_from_unit(rule, 1)

RECURSIVE split(_, _)
\* str::split(c): the parts between the c's, the empty ones too
split(str, c) ==
    LET parts == split_once(str, c)
    IN  IF ~parts.some THEN <<str>> ELSE <<parts.val[1]>> \o split(parts.val[2], c)

\* rules.sort_unstable(): the rules in an order of ascending period; the
\* order among rules of one period is not specified
sort_unstable(rules) ==
    {[i \in DOMAIN rules |-> rules[f[i]]] :
        f \in {g \in [DOMAIN rules -> DOMAIN rules] :
                  /\ \A i, j \in DOMAIN rules : i # j => g[i] # g[j]
                  /\ \A i, j \in DOMAIN rules :
                         i < j => rules[g[i]].snapshot_period <= rules[g[j]].snapshot_period}}

\* impl FromStr for RetentionPolicy: the results the call can give
policy_from_str(str) ==
    LET parsed == [i \in DOMAIN split(str, ":") |-> rule_from_str(split(str, ":")[i])]
    IN  IF \E i \in DOMAIN parsed : ~parsed[i].ok THEN {Err}
        ELSE IF parsed = <<>> THEN {Err}
        ELSE {Ok(rules) : rules \in sort_unstable([i \in DOMAIN parsed |-> parsed[i].val])}

----------------------------------------------------------------------------
(* zfs.rs: snapshot names and the destroy call *)

\* snapshot.name.contains('@')
contains_at(name) == \E i \in DOMAIN name : name[i] = "@"

\* SnapshotMetadata::dataset: the part of the name before '@'
dataset_of(snapshot) == snapshot.name[1]

\* destroy_snapshot that hands every name to zfs
destroy_unchecked(snapshot, zfs_ok) ==
    [ok |-> zfs_ok, commands |-> <<<<"destroy", snapshot.name>>>>]

\* destroy_snapshot: the result, and the zfs commands run; zfs_ok is whether
\* the zfs command succeeds when it is run
destroy_snapshot(snapshot, zfs_ok) ==
    IF ~contains_at(snapshot.name)
    THEN [ok |-> FALSE, commands |-> <<>>]
    ELSE [ok |-> zfs_ok, commands |-> <<<<"destroy", snapshot.name>>>>]

----------------------------------------------------------------------------
(* tomato.rs: the policy type and the checker main.rs links *)

\* shortest_period with .max() for .min()
longest_period(rules) == Max({rules[i].snapshot_period : i \in DOMAIN rules})

\* RetentionPolicy::shortest_period
shortest_period(rules) == Min({rules[i].snapshot_period : i \in DOMAIN rules})

\* Utc::now().signed_duration_since(created).to_std().unwrap_or(Duration::ZERO)
elapsed(snapshot, t) == IF t >= snapshot.created THEN t - snapshot.created ELSE 0

RemoveAt(s, j) == SubSeq(s, 1, j - 1) \o SubSeq(s, j + 1, Len(s))

\* ExemptOne that takes the oldest snapshot of the bucket, not the newest
ExemptOldest(to_remove, rule, i, t) ==
    LET hit == {j \in DOMAIN to_remove :
                   /\ elapsed(to_remove[j], t) >= rule.snapshot_period * i
                   /\ elapsed(to_remove[j], t) < rule.snapshot_period * (i + 1)}
    IN  IF hit = {} THEN to_remove ELSE RemoveAt(to_remove, Max(hit))

\* `for (j, snapshot) in to_remove.iter().enumerate()`: the first snapshot
\* whose age lies in [period * i, period * (i + 1)) leaves to_remove
ExemptOne(to_remove, rule, i, t) ==
    LET hit == {j \in DOMAIN to_remove :
                   /\ elapsed(to_remove[j], t) >= rule.snapshot_period * i
                   /\ elapsed(to_remove[j], t) < rule.snapshot_period * (i + 1)}
    IN  IF hit = {} THEN to_remove ELSE RemoveAt(to_remove, Min(hit))

RECURSIVE ExemptCopies(_, _, _, _)
\* `for i in 0..rule.retained_copies`, from i onwards
ExemptCopies(to_remove, rule, i, t) ==
    IF i >= rule.retained_copies THEN to_remove
    ELSE ExemptCopies(ExemptOne(to_remove, rule, i, t), rule, i + 1, t)

RECURSIVE ExemptRules(_, _, _, _)
\* `for rule in self.rules_shortest_resention_first`, from rule n onwards
ExemptRules(to_remove, rules, n, t) ==
    IF n > Len(rules) THEN to_remove
    ELSE ExemptRules(ExemptCopies(to_remove, rules[n], 0, t), rules, n + 1, t)

\* PolicyChecker::rejected, evaluated when the clock reads t
checker_rejected(rules, snapshots_newest_first, t) ==
    ExemptRules(snapshots_newest_first, rules, 1, t)

----------------------------------------------------------------------------
(* main.rs: what the daemon computes from the fetched datasets *)

\* 60 * 10 seconds
FallbackPoll == 600

\* until_next_snapshot measuring from the oldest snapshot of the dataset
until_next_from_oldest(dataset, t) ==
    LET own == {s \in Range(dataset.sorted_snapshots) : dataset_of(s) = dataset.path}
    IN  IF own = {} THEN None
        ELSE LET oldest == CHOOSE s \in own : \A o \in own : o.created >= s.created
                 period == shortest_period(dataset.retention_policy)
                 gone == elapsed(oldest, t)
             IN  Some(IF period >= gone THEN period - gone ELSE 0)

\* until_next_snapshot that has a dataset without snapshots due at once
until_next_or_now(dataset, t) ==
    LET own == {s \in Range(dataset.sorted_snapshots) : dataset_of(s) = dataset.path}
    IN  IF own = {} THEN Some(0)
        ELSE LET newest == CHOOSE s \in own : \A o \in own : o.created <= s.created
                 period == shortest_period(dataset.retention_policy)
                 gone == elapsed(newest, t)
             IN  Some(IF period >= gone THEN period - gone ELSE 0)

\* the closure of until_next_snapshot for one dataset, when the clock reads t
until_next_snapshot(dataset, t) ==
    LET own == {s \in Range(dataset.sorted_snapshots) : dataset_of(s) = dataset.path}
    IN  IF own = {} THEN None
        ELSE LET newest == CHOOSE s \in own : \A o \in own : o.created <= s.created
                 period == shortest_period(dataset.retention_policy)
                 gone == elapsed(newest, t)
             IN  Some(IF period >= gone THEN period - gone ELSE 0)

\* duration_until_next_snapshot_needed taking max() for min()
duration_until_last_snapshot_needed(ds, t) ==
    LET dues == {until_next_snapshot(ds[i], t).val :
                    i \in {j \in DOMAIN ds : until_next_snapshot(ds[j], t).some}}
    IN  IF dues = {} THEN None ELSE Some(Max(dues))

\* duration_until_next_snapshot_needed
duration_until_next_snapshot_needed(ds, t) ==
    LET dues == {until_next_snapshot(ds[i], t).val :
                    i \in {j \in DOMAIN ds : until_next_snapshot(ds[j], t).some}}
    IN  IF dues = {} THEN None ELSE Some(Min(dues))

----------------------------------------------------------------------------
(* The engine under test: Init draws a policy and a newest-first snapshot  *)
(* list, the actions are the public calls of policy.rs and the clock.      *)

\* The lists zfs::add_snapshots hands out: sorted newest first, names unique;
\* timestamps are distinct.
SnapshotLists ==
    {[i \in 1..Len(ts) |-> SnapshotMetadata(i, ts[i])] :
        ts \in {t \in UNION {[1..n -> 0..MaxTime] : n \in 0..MaxSnaps} :
                   \A i \in 1..(Len(t) - 1) : t[i] > t[i + 1]}}

\* The policies RetentionPolicy::from_str hands out: at least one rule, sorted
\* by period (rules.sort_unstable()), one rule per period.
Policies ==
    {rs \in UNION {[1..n -> RetentionRule] : n \in 1..MaxRules} :
        \A i \in 1..(Len(rs) - 1) : rs[i].snapshot_period < rs[i + 1].snapshot_period}

Idle == [op |-> "idle"]

\* the engine is not called in the daemon's runs
EngineOff ==
    /\ policy = <<>>
    /\ snapshots = <<>>
    /\ res = Idle
    /\ first = [rejected |-> {}, retained |-> <<>>]

\* start() of the wizard has not been called
WizardOff == [pc |-> "off", name |-> "", policy |-> <<>>, issued |-> None]

\* the daemon does not run while the engine is under test
DaemonOff ==
    /\ sandbox = FALSE
    /\ store = <<>>
    /\ conf = <<>>
    /\ pc = "off"
    /\ datasets = <<>>
    /\ cursor = 0
    /\ pending = <<>>
    /\ wokeAt = 0
    /\ slept = 0
    /\ wizard = WizardOff
    /\ created = {}
    /\ destroyed = {}

Init ==
    /\ policy \in Policies
    /\ snapshots \in SnapshotLists
    /\ now = MaxTime
    /\ res = Idle
    /\ first = judge(policy, snapshots)
    /\ DaemonOff

\* time passes between two calls
Tick ==
    /\ res = Idle
    /\ now < MaxNow
    /\ now' = now + 1
    /\ UNCHANGED <<policy, snapshots, res, first, daemonVars>>

\* policy.judge(&snapshots)
Judge ==
    /\ res = Idle
    /\ res' = [op |-> "judge", out |-> judge(policy, snapshots)]
    /\ UNCHANGED <<policy, snapshots, now, first, daemonVars>>

\* rule.rejects(&snapshots_oldest_first), for a rule of the policy
Rejects ==
    /\ res = Idle
    /\ \E i \in DOMAIN policy :
           LET sorted == SortOldestFirst(snapshots)
           IN  res' = [op |-> "rejects", rule |-> policy[i],
                       bounded |-> not_too_old(sorted, policy[i]),
                       out |-> rejects(policy[i], sorted)]
    /\ UNCHANGED <<policy, snapshots, now, first, daemonVars>>

\* rule.next_snapshot_in(&snapshots), for a rule of the policy
RuleNextSnapshotIn ==
    /\ res = Idle
    /\ \E i \in DOMAIN policy :
           res' = [op |-> "rule_next_snapshot_in", rule |-> policy[i],
                   out |-> rule_next_snapshot_in(policy[i], snapshots)]
    /\ UNCHANGED <<policy, snapshots, now, first, daemonVars>>

\* policy.next_snapshot_in(&snapshots)
PolicyNextSnapshotIn ==
    /\ res = Idle
    /\ res' = [op |-> "next_snapshot_in",
               out |-> policy_next_snapshot_in(policy, snapshots)]
    /\ UNCHANGED <<policy, snapshots, now, first, daemonVars>>

\* policy.checker().rejected(&snapshots), the checker of tomato.rs
CheckerRejected ==
    /\ res = Idle
    /\ res' = [op |-> "rejected", out |-> checker_rejected(policy, snapshots, now)]
    /\ UNCHANGED <<policy, snapshots, now, first, daemonVars>>

\* the caller drops the returned value
Return ==
    /\ res # Idle
    /\ res' = Idle
    /\ UNCHANGED <<policy, snapshots, now, first, daemonVars>>

Next ==
    \/ Tick
    \/ Judge
    \/ Rejects
    \/ RuleNextSnapshotIn
    \/ PolicyNextSnapshotIn
    \/ CheckerRejected
    \/ Return

Spec == Init /\ [][Next]_vars

TypeOK ==
    /\ policy \in Policies
    /\ snapshots \in SnapshotLists
    /\ now \in 0..MaxNow

----------------------------------------------------------------------------
(* The daemon (main.rs) over the pool (zfs.rs) *)

\* the datasets of the pool, in the order zfs lists them
Volumes == <<"tank/a", "tank/b">>

\* format!("{}@{}-autosnap", dataset, now): a name is the sequence of its parts
Snap(v, t) == SnapshotMetadata(<<v, "@", ToString(t)>>, t)

\* the policies set on the datasets: rule n of a policy keeps n copies
DaemonPolicies == {rs \in Policies : \A i \in DOMAIN rs : rs[i].retained_copies = i}

\* what a dataset holds when the daemon starts: nothing, or one snapshot
InitialSnapshots(v) == {<<>>} \cup {<<Snap(v, t)>> : t \in 0..MaxTime}

DaemonInit ==
    /\ EngineOff
    /\ now = MaxTime
    /\ sandbox \in BOOLEAN
    /\ \E rs \in DaemonPolicies, set \in SUBSET Range(Volumes) : conf = [v \in set |-> rs]
    /\ store \in {f \in [Range(Volumes) -> UNION {InitialSnapshots(v) : v \in Range(Volumes)}] :
                     \A v \in Range(Volumes) : f[v] \in InitialSnapshots(v)}
    /\ pc = "fetch"
    /\ datasets = <<>>
    /\ cursor = 0
    /\ pending = <<>>
    /\ wokeAt = 0
    /\ slept = 0
    /\ wizard = WizardOff
    /\ created = {}
    /\ destroyed = {}

\* a loop that lists once and keeps the datasets of its first cycle
FetchOnce ==
    /\ pc = "fetch"
    /\ now <= MaxNow
    /\ LET listed == SelectSeq(Volumes, LAMBDA v : v \in DOMAIN conf)
       IN  datasets' = IF datasets # <<>> THEN datasets
                       ELSE [i \in DOMAIN listed |->
                                [path |-> listed[i],
                                 retention_policy |-> conf[listed[i]],
                                 sorted_snapshots |-> store[listed[i]]]]
    /\ pc' = "sleep"
    /\ created' = {}
    /\ destroyed' = {}
    /\ UNCHANGED <<engine, wizard, now, sandbox, store, conf, cursor, pending, wokeAt, slept>>

\* let datasets = configured_datasets()?  -- the listing succeeds
Fetch ==
    /\ pc = "fetch"
    /\ now <= MaxNow
    /\ LET listed == SelectSeq(Volumes, LAMBDA v : v \in DOMAIN conf)
       IN  datasets' = [i \in DOMAIN listed |->
                           [path |-> listed[i],
                            retention_policy |-> conf[listed[i]],
                            sorted_snapshots |-> store[listed[i]]]]
    /\ pc' = "sleep"
    /\ created' = {}
    /\ destroyed' = {}
    /\ UNCHANGED <<engine, wizard, now, sandbox, store, conf, cursor, pending, wokeAt, slept>>

\* configured_datasets()? returns the error of a failed zfs call
FetchFails ==
    /\ pc = "fetch"
    /\ now <= MaxNow
    /\ pc' = "failed"
    /\ UNCHANGED <<engine, wizard, now, sandbox, store, conf, datasets, cursor, pending, wokeAt, slept,
                   created, destroyed>>

\* thread::sleep(duration_until_next_snapshot_needed(..).unwrap_or(10 minutes))
Sleep ==
    /\ pc = "sleep"
    /\ LET until_next_check == duration_until_next_snapshot_needed(datasets, now)
       IN  slept' = IF until_next_check.some THEN until_next_check.val ELSE FallbackPoll
    /\ now' = now + slept'
    /\ wokeAt' = now'
    /\ pc' = "create"
    /\ cursor' = 1
    /\ UNCHANGED <<engine, wizard, sandbox, store, conf, datasets, pending, created, destroyed>>

\* time passes while the daemon talks to zfs
Work ==
    /\ pc \in {"create", "destroy"}
    /\ now < MaxNow
    /\ now' = now + 1
    /\ UNCHANGED <<engine, daemonVars>>

\* need_snapshot's filter passes over a dataset that is not due
NotDue ==
    /\ pc = "create"
    /\ cursor <= Len(datasets)
    /\ until_next_snapshot(datasets[cursor], now) # Some(0)
    /\ cursor' = cursor + 1
    /\ UNCHANGED <<engine, wizard, now, sandbox, store, conf, pc, datasets, pending, wokeAt, slept,
                   created, destroyed>>

\* `for dataset in need_snapshot(&datasets)` with the sandbox flag set
WouldSnapshot ==
    /\ pc = "create"
    /\ cursor <= Len(datasets)
    /\ until_next_snapshot(datasets[cursor], now) = Some(0)
    /\ sandbox
    /\ cursor' = cursor + 1
    /\ UNCHANGED <<engine, wizard, now, sandbox, store, conf, pc, datasets, pending, wokeAt, slept,
                   created, destroyed>>

\* zfs::snapshot(&dataset)? succeeds: the pool holds dataset@now
Snapshot ==
    /\ pc = "create"
    /\ cursor <= Len(datasets)
    /\ until_next_snapshot(datasets[cursor], now) = Some(0)
    /\ ~sandbox
    /\ LET v == datasets[cursor].path
       IN  /\ \A s \in Range(store[v]) : s.created # now
           /\ store' = [store EXCEPT ![v] = <<Snap(v, now)>> \o @]
           /\ created' = created \cup {v}
    /\ cursor' = cursor + 1
    /\ UNCHANGED <<engine, wizard, now, sandbox, conf, pc, datasets, pending, wokeAt, slept, destroyed>>

\* zfs::snapshot(&dataset)? returns an error: the snap command failed (also
\* when dataset@now exists), or reading `used` failed after it
SnapshotFails ==
    /\ pc = "create"
    /\ cursor <= Len(datasets)
    /\ until_next_snapshot(datasets[cursor], now) = Some(0)
    /\ ~sandbox
    /\ LET v == datasets[cursor].path
       IN  /\ \/ UNCHANGED store
              \/ /\ \A s \in Range(store[v]) : s.created # now
                 /\ store' = [store EXCEPT ![v] = <<Snap(v, now)>> \o @]
           /\ created' = created \cup {v}
    /\ pc' = "failed"
    /\ UNCHANGED <<engine, wizard, now, sandbox, conf, datasets, cursor, pending, wokeAt, slept, destroyed>>

\* the first for-loop ends
CreateDone ==
    /\ pc = "create"
    /\ cursor > Len(datasets)
    /\ pc' = "destroy"
    /\ cursor' = 1
    /\ pending' = <<>>
    /\ UNCHANGED <<engine, wizard, now, sandbox, store, conf, datasets, wokeAt, slept, created, destroyed>>

\* NextRejects that reads the snapshots the pool holds now, not the listing
NextRejectsFresh ==
    /\ pc = "destroy"
    /\ pending = <<>>
    /\ cursor <= Len(datasets)
    /\ pending' = checker_rejected(datasets[cursor].retention_policy,
                                   store[datasets[cursor].path], now)
    /\ cursor' = cursor + 1
    /\ UNCHANGED <<engine, wizard, now, sandbox, store, conf, pc, datasets, wokeAt, slept,
                   created, destroyed>>

\* need_removal's map reaches the next dataset: checker.rejected(..)
NextRejects ==
    /\ pc = "destroy"
    /\ pending = <<>>
    /\ cursor <= Len(datasets)
    /\ pending' = checker_rejected(datasets[cursor].retention_policy,
                                   datasets[cursor].sorted_snapshots, now)
    /\ cursor' = cursor + 1
    /\ UNCHANGED <<engine, wizard, now, sandbox, store, conf, pc, datasets, wokeAt, slept,
                   created, destroyed>>

\* the destroy loop's step without its test of the sandbox flag
RemoveAnyway ==
    /\ pc = "destroy"
    /\ pending # <<>>
    /\ sandbox
    /\ LET s == Head(pending)
           v == dataset_of(s)
       IN  /\ store' = [store EXCEPT ![v] = SelectSeq(@, LAMBDA o : o # s)]
           /\ destroyed' = destroyed \cup {s}
    /\ pending' = Tail(pending)
    /\ UNCHANGED <<engine, wizard, now, sandbox, conf, pc, datasets, cursor, wokeAt, slept,
                   created>>

\* `for snapshot in need_removal(&datasets)` with the sandbox flag set
WouldRemove ==
    /\ pc = "destroy"
    /\ pending # <<>>
    /\ sandbox
    /\ pending' = Tail(pending)
    /\ UNCHANGED <<engine, wizard, now, sandbox, store, conf, pc, datasets, cursor, wokeAt, slept,
                   created, destroyed>>

\* zfs::destroy_snapshot(snapshot)? succeeds
Destroy ==
    /\ pc = "destroy"
    /\ pending # <<>>
    /\ ~sandbox
    /\ LET s == Head(pending)
           v == dataset_of(s)
           call == destroy_snapshot(s, TRUE)
       IN  /\ call.ok
           /\ store' = [store EXCEPT ![v] = SelectSeq(@, LAMBDA o : o # s)]
           /\ destroyed' = destroyed \cup {s}
    /\ pending' = Tail(pending)
    /\ UNCHANGED <<engine, wizard, now, sandbox, conf, pc, datasets, cursor, wokeAt, slept, created>>

\* a failed zfs::destroy_snapshot whose error is dropped: the loop goes on
DestroySuppressed ==
    /\ pc = "destroy"
    /\ pending # <<>>
    /\ ~sandbox
    /\ destroyed' = destroyed \cup {Head(pending)}
    /\ pending' = Tail(pending)
    /\ UNCHANGED <<engine, wizard, now, sandbox, store, conf, pc, datasets, cursor, wokeAt,
                   slept, created>>

\* zfs::destroy_snapshot(snapshot)? returns an error
DestroyFails ==
    /\ pc = "destroy"
    /\ pending # <<>>
    /\ ~sandbox
    /\ LET call == destroy_snapshot(Head(pending), FALSE)
       IN  /\ ~call.ok
           /\ destroyed' = IF call.commands = <<>> THEN destroyed
                           ELSE destroyed \cup {Head(pending)}
    /\ pc' = "failed"
    /\ UNCHANGED <<engine, wizard, now, sandbox, store, conf, datasets, cursor, pending, wokeAt, slept, created>>

\* the second for-loop ends and `loop` starts over
Loop ==
    /\ pc = "destroy"
    /\ pending = <<>>
    /\ cursor > Len(datasets)
    /\ pc' = "fetch"
    /\ UNCHANGED <<engine, wizard, now, sandbox, store, conf, datasets, cursor, pending, wokeAt, slept,
                   created, destroyed>>

DaemonNext ==
    \/ Fetch
    \/ FetchFails
    \/ Sleep
    \/ Work
    \/ NotDue
    \/ WouldSnapshot
    \/ Snapshot
    \/ SnapshotFails
    \/ CreateDone
    \/ NextRejects
    \/ WouldRemove
    \/ Destroy
    \/ DestroyFails
    \/ Loop

DaemonSpec == DaemonInit /\ [][DaemonNext]_vars

----------------------------------------------------------------------------
(* The configuration wizard (configure/interactive_cli.rs) over the pool *)

\* the daemon's own state, untouched by the wizard
loopVars == <<pc, datasets, cursor, pending, wokeAt, slept, created, destroyed>>

\* what new_rule can return as Some(rule): humantime parses any duration, zero
\* included; the validator of the copies asks for more than zero
WizardRules == [snapshot_period : 0..MaxPeriod, retained_copies : {1, MaxCopies}]

\* the datasets without and with the policy property, in listing order
Unconfigured == SelectSeq(Volumes, LAMBDA v : v \notin DOMAIN conf)

IterConfigured == SelectSeq(Volumes, LAMBDA v : v \in DOMAIN conf)

\* policy.0.iter().position(|r| *r == to_remove)
Position(rules, r) == Min({i \in DOMAIN rules : rules[i] = r})

WizardInit ==
    /\ EngineOff
    /\ now = MaxTime
    /\ sandbox \in BOOLEAN
    /\ \E rs \in DaemonPolicies, set \in SUBSET Range(Volumes) : conf = [v \in set |-> rs]
    /\ store = [v \in Range(Volumes) |-> <<>>]
    /\ pc = "off"
    /\ datasets = <<>>
    /\ cursor = 0
    /\ pending = <<>>
    /\ wokeAt = 0
    /\ slept = 0
    /\ created = {}
    /\ destroyed = {}
    /\ wizard = [WizardOff EXCEPT !.pc = "start"]

\* start: the two listings, and the action the user takes from the options
Start ==
    /\ wizard.pc = "start"
    /\ LET options == (IF Unconfigured # <<>> THEN {"setup_dataset"} ELSE {})
                      \cup (IF IterConfigured # <<>> THEN {"change_dataset"} ELSE {})
       IN  \/ /\ options = {}                   \* options.remove(0) panics
              /\ wizard' = [wizard EXCEPT !.pc = "panicked"]
           \/ /\ Cardinality(options) = 1
              /\ \E action \in options : wizard' = [wizard EXCEPT !.pc = action]
           \/ /\ Cardinality(options) > 1
              /\ \/ \E action \in options : wizard' = [wizard EXCEPT !.pc = action]
                 \/ wizard' = [wizard EXCEPT !.pc = "done"]    \* None => return Ok(())
    /\ UNCHANGED <<engine, now, sandbox, store, conf, loopVars>>

\* any `?` of the wizard: a listing, a stored policy that does not parse, or a
\* prompt returns an error
WizardFails ==
    /\ wizard.pc \in {"start", "setup_dataset", "setup_more", "change_dataset", "change_loop"}
    /\ wizard' = [wizard EXCEPT !.pc = "failed"]
    /\ UNCHANGED <<engine, now, sandbox, store, conf, loopVars>>

\* setup_dataset up to its loop: the dataset and the first rule, or a skip
SetupDataset ==
    /\ wizard.pc = "setup_dataset"
    /\ \/ wizard' = [wizard EXCEPT !.pc = "done"]
       \/ \E i \in DOMAIN Unconfigured, rule \in WizardRules :
              wizard' = [wizard EXCEPT !.pc = "setup_more",
                                       !.name = Unconfigured[i],
                                       !.policy = <<rule>>]
    /\ UNCHANGED <<engine, now, sandbox, store, conf, loopVars>>

\* setup_dataset's loop: no more rules, another rule, or new_rule skipped
SetupMore ==
    /\ wizard.pc = "setup_more"
    /\ \/ wizard' = [wizard EXCEPT !.pc = "changed"]
       \/ wizard' = [wizard EXCEPT !.pc = "done"]
       \/ /\ Len(wizard.policy) < MaxRules
          /\ \E rule \in WizardRules :
                 wizard' = [wizard EXCEPT !.policy = Append(@, rule)]
    /\ UNCHANGED <<engine, now, sandbox, store, conf, loopVars>>

\* change_dataset up to its loop: the dataset to modify, or a skip
ChangeDataset ==
    /\ wizard.pc = "change_dataset"
    /\ \/ wizard' = [wizard EXCEPT !.pc = "done"]
       \/ \E i \in DOMAIN IterConfigured :
              wizard' = [wizard EXCEPT !.pc = "change_loop",
                                       !.name = IterConfigured[i],
                                       !.policy = conf[IterConfigured[i]]]
    /\ UNCHANGED <<engine, now, sandbox, store, conf, loopVars>>

\* ChangeDataset::AddRule: `if let Some(new_rule) = new_rule()? { push }`
AddRule ==
    /\ wizard.pc = "change_loop"
    /\ Len(wizard.policy) < MaxRules
    /\ \E rule \in WizardRules : wizard' = [wizard EXCEPT !.policy = Append(@, rule)]
    /\ UNCHANGED <<engine, now, sandbox, store, conf, loopVars>>

\* ChangeDataset::RemoveRule: remove_rule takes out the first rule equal to
\* the one selected (a Select over no rule is an error: WizardFails)
RemoveRule ==
    /\ wizard.pc = "change_loop"
    /\ \E r \in Range(wizard.policy) :
           wizard' = [wizard EXCEPT !.policy = RemoveAt(@, Position(@, r))]
    /\ UNCHANGED <<engine, now, sandbox, store, conf, loopVars>>

\* the choice is skipped: `None => return Ok(Some(to_modify))`
ChangeDone ==
    /\ wizard.pc = "change_loop"
    /\ wizard' = [wizard EXCEPT !.pc = "changed"]
    /\ UNCHANGED <<engine, now, sandbox, store, conf, loopVars>>

\* `if let Some(changed) = changed && !sandbox`: nothing is stored
NotStored ==
    /\ wizard.pc = "changed"
    /\ sandbox
    /\ wizard' = [wizard EXCEPT !.pc = "done"]
    /\ UNCHANGED <<engine, now, sandbox, store, conf, loopVars>>

\* changed.store_and_apply_retention_policy()?: the property is set, or the
\* zfs call fails
StoreAndApply ==
    /\ wizard.pc = "changed"
    /\ ~sandbox
    /\ LET call == Some([name |-> wizard.name, policy |-> wizard.policy])
       IN  \/ /\ conf' = [v \in DOMAIN conf \cup {wizard.name} |->
                             IF v = wizard.name THEN wizard.policy ELSE conf[v]]
              /\ wizard' = [wizard EXCEPT !.pc = "done", !.issued = call]
           \/ /\ UNCHANGED conf
              /\ wizard' = [wizard EXCEPT !.pc = "failed", !.issued = call]
    /\ UNCHANGED <<engine, now, sandbox, store, loopVars>>

WizardNext ==
    \/ Start
    \/ WizardFails
    \/ SetupDataset
    \/ SetupMore
    \/ ChangeDataset
    \/ AddRule
    \/ RemoveRule
    \/ ChangeDone
    \/ NotStored
    \/ StoreAndApply

\* one run of the program: the daemon, or the wizard
ProgramInit == DaemonInit \/ WizardInit

ProgramNext == DaemonNext \/ WizardNext

ProgramSpec == ProgramInit /\ [][ProgramNext]_vars

----------------------------------------------------------------------------
(* destroy_snapshot (zfs.rs) called with any identifier *)

MaxName == 3

\* the parts an identifier is made of
NameParts == {"tank", "@", "0"}

\* identifiers of up to MaxName parts: datasets, snapshots, and other things
Identifiers == UNION {[1..n -> NameParts] : n \in 0..MaxName}

DestroyInit ==
    /\ policy = <<>>
    /\ snapshots = <<>>
    /\ first = [rejected |-> {}, retained |-> <<>>]
    /\ now = MaxTime
    /\ DaemonOff
    /\ \E name \in Identifiers, zfs_ok \in BOOLEAN :
           res = [op |-> "call", name |-> name, zfs_ok |-> zfs_ok]

\* destroy_snapshot(&snapshot) runs
DestroySnapshot ==
    /\ res.op = "call"
    /\ res' = [op |-> "destroy_snapshot", name |-> res.name, zfs_ok |-> res.zfs_ok,
               out |-> destroy_snapshot(SnapshotMetadata(res.name, now), res.zfs_ok)]
    /\ UNCHANGED <<policy, snapshots, now, first, daemonVars>>

DestroySpec == DestroyInit /\ [][DestroySnapshot]_vars

----------------------------------------------------------------------------
(* RetentionPolicy::from_str (policy.rs) called with any string *)

MaxToken == 3

\* the characters the strings are made of
Chars == {"0", "2", "s", "m"}

\* what can stand between two colons
Tokens == UNION {[1..n -> Chars] : n \in 0..MaxToken}

\* the strings handed to the parser: one token, or two around a colon
PolicyStrings == Tokens \cup {t \o <<":">> \o u : t \in Tokens, u \in Tokens}

ParseInit ==
    /\ policy = <<>>
    /\ snapshots = <<>>
    /\ first = [rejected |-> {}, retained |-> <<>>]
    /\ now = MaxTime
    /\ DaemonOff
    /\ \E str \in PolicyStrings : res = [op |-> "call", str |-> str]

\* RetentionPolicy::from_str(str) runs
PolicyFromStr ==
    /\ res.op = "call"
    /\ \E out \in policy_from_str(res.str) :
           res' = [op |-> "from_str", str |-> res.str, out |-> out]
    /\ UNCHANGED <<policy, snapshots, now, first, daemonVars>>

ParseSpec == ParseInit /\ [][PolicyFromStr]_vars

-----------------------------------------------------------------------------
(* The engine judging a list, and judging again what it retained *)

LongPeriod == 3    \* rule periods lie in 1..LongPeriod here
LongList == 4      \* longest snapshot list here

\* newest-first lists of up to LongList snapshots, one per timestamp
LongSnapshotLists ==
    {[i \in 1..Len(ts) |-> SnapshotMetadata(i, ts[i])] :
        ts \in {t \in UNION {[1..n -> 0..MaxTime] : n \in 0..LongList} :
                   \A i \in 1..(Len(t) - 1) : t[i] > t[i + 1]}}

\* policies as RetentionPolicy::from_str hands them out, with periods up to
\* LongPeriod and at least one copy to each rule
LongPolicies ==
    {rs \in UNION {[1..n -> [snapshot_period : 1..LongPeriod,
                             retained_copies : 1..MaxCopies]] : n \in 1..MaxRules} :
        \A i \in 1..(Len(rs) - 1) : rs[i].snapshot_period < rs[i + 1].snapshot_period}

PruneInit ==
    /\ policy \in LongPolicies
    /\ snapshots \in LongSnapshotLists
    /\ now = MaxTime
    /\ res = Idle
    /\ first = judge(policy, snapshots)
    /\ DaemonOff

\* the rejected snapshots are destroyed; the list keeps the retained ones
Prune ==
    /\ res = Idle
    /\ first.rejected # {}
    /\ snapshots' = SelectSeq(snapshots, LAMBDA s : s \in DOMAIN first.retained)
    /\ res' = [op |-> "pruned"]
    /\ UNCHANGED <<policy, now, first, daemonVars>>

\* policy.judge(&snapshots) on the list as it is now
JudgeAgain ==
    /\ res.op \in {"idle", "pruned"}
    /\ res' = [op |-> "judge", pruned |-> res.op = "pruned",
               out |-> judge(policy, snapshots)]
    /\ UNCHANGED <<policy, snapshots, now, first, daemonVars>>

PruneNext == Prune \/ JudgeAgain

PruneSpec == PruneInit /\ [][PruneNext]_vars

-----------------------------------------------------------------------------
(* status.rs: the status report; a report is the sequence of its lines, a  *)
(* line the sequence of its fields (padding and wrapping are left out)     *)

\* the writer returned, having written lines
Written(lines) == [panicked |-> FALSE, lines |-> lines]

\* the writer panicked after it wrote lines
Panicked(lines) == [panicked |-> TRUE, lines |-> lines]

RECURSIVE Log10(_)
Log10(n) == IF n < 10 THEN 0 ELSE 1 + Log10(n \div 10)

\* usize::ilog10: the logarithm rounded down; it panics on zero (None here)
ilog10(n) == IF n = 0 THEN None ELSE Some(Log10(n))

\* judgement.rejected.into_iter().collect_vec() followed by rejected.sort()
RejectedSorted(dataset) ==
    LET judgement == judge(dataset.retention_policy, dataset.sorted_snapshots)
    IN  SortOldestFirst(SelectSeq(dataset.sorted_snapshots,
                                  LAMBDA s : s \in judgement.rejected))

RECURSIVE write_rejected_snapshot_state(_)
\* one line for each dataset that has rejected snapshots: its path and their names
write_rejected_snapshot_state(configured) ==
    IF configured = <<>> THEN <<>>
    ELSE LET rejected == RejectedSorted(Head(configured))
             line == <<Head(configured).path>>
                     \o [i \in DOMAIN rejected |-> rejected[i].name]
         IN  (IF rejected = <<>> THEN <<>> ELSE <<line>>)
             \o write_rejected_snapshot_state(Tail(configured))

RECURSIVE write_rejected_snapshot_state_verbose(_)
\* for each dataset that has rejected snapshots: its path, a header and a row
\* for each rejected snapshot
write_rejected_snapshot_state_verbose(configured) ==
    IF configured = <<>> THEN <<>>
    ELSE LET rejected == RejectedSorted(Head(configured))
             rows == [i \in DOMAIN rejected |->
                         <<rejected[i].name, rejected[i].created>>]
         IN  (IF rejected = <<>> THEN <<>>
              ELSE <<<<Head(configured).path>>, <<"Name", "#Created", "Refers to">>>>
                   \o rows)
             \o write_rejected_snapshot_state_verbose(Tail(configured))

\* dataset.until_next_snapshot() rendered, "never" when there is none; the
\* method is read as the function of that name in main.rs
NextSnapshotIn(dataset, t) ==
    LET d == until_next_snapshot(dataset, t)
    IN  IF d.some THEN d.val ELSE "never"

RECURSIVE write_configured_datasets_section_verbose(_, _)
\* four lines for each dataset, and one more for each rule of its policy
write_configured_datasets_section_verbose(configured, t) ==
    IF configured = <<>> THEN <<>>
    ELSE LET dataset == Head(configured)
         IN  << <<dataset.path>>,
                <<"numbers of snapshots", Len(dataset.sorted_snapshots)>>,
                <<"next snapshot in", NextSnapshotIn(dataset, t)>>,
                <<"retention policy">> >>
             \o [i \in DOMAIN dataset.retention_policy |->
                    <<"-", dataset.retention_policy[i]>>]
             \o write_configured_datasets_section_verbose(Tail(configured), t)

\* the column widths are computed first, count_width from
\* sorted_snapshots.len().ilog10() of every dataset; then the header and a
\* row for each dataset are written
write_configured_datasets_section(configured, t) ==
    LET digits == [i \in DOMAIN configured |-> ilog10(Len(configured[i].sorted_snapshots))]
    IN  IF \E i \in DOMAIN configured : ~digits[i].some THEN Panicked(<<>>)
        ELSE Written(<< <<"Name", "#Snapshots", "Rules", "Next snapshot">> >>
                     \o [i \in DOMAIN configured |->
                            <<configured[i].path,
                              Len(configured[i].sorted_snapshots),
                              configured[i].retention_policy,
                              NextSnapshotIn(configured[i], t)>>])

write_status(configured, verbose, t) ==
    IF configured = <<>>
    THEN Written(<< <<"No datasets configured for auto snapshotting by this tool">> >>)
    ELSE IF verbose
    THEN Written(<< <<"Configured datasets">> >>
                 \o write_configured_datasets_section_verbose(configured, t)
                 \o << <<>>, <<"Snapshot to be removed">> >>
                 \o write_rejected_snapshot_state_verbose(configured))
    ELSE LET section == write_configured_datasets_section(configured, t)
         IN  IF section.panicked THEN Panicked(<< <<"Configured datasets">> >>)
             ELSE Written(<< <<"Configured datasets">> >>
                          \o section.lines
                          \o << <<"Snapshot to be removed">> >>
                          \o write_rejected_snapshot_state(configured))

-----------------------------------------------------------------------------
(* The status report, called on lists of configured datasets *)

\* what a dataset holds when its status is asked for: up to two snapshots,
\* newest first
StatusSnapshots(v) ==
    {<<>>} \cup {<<Snap(v, t)>> : t \in 0..MaxTime}
    \cup {<<Snap(v, p[1]), Snap(v, p[2])>> :
             p \in {q \in (0..MaxTime) \X (0..MaxTime) : q[1] > q[2]}}

\* the lists configured_datasets() can return: some of the volumes, in the
\* order of the listing, each with the policy set on it and its snapshots
StatusDatasets ==
    UNION {LET listed == SelectSeq(Volumes, LAMBDA v : v \in set)
           IN  {[i \in DOMAIN listed |->
                    [path |-> listed[i],
                     retention_policy |-> rs,
                     sorted_snapshots |-> held[listed[i]]]] :
                   held \in {f \in [set -> UNION {StatusSnapshots(v) : v \in set}] :
                                \A v \in set : f[v] \in StatusSnapshots(v)}} :
           set \in SUBSET Range(Volumes), rs \in DaemonPolicies}

StatusInit ==
    /\ policy = <<>>
    /\ snapshots = <<>>
    /\ first = [rejected |-> {}, retained |-> <<>>]
    /\ now = MaxTime
    /\ DaemonOff
    /\ \E ds \in StatusDatasets, verbose \in BOOLEAN :
           res = [op |-> "call", datasets |-> ds, verbose |-> verbose]

\* write_status(f, &datasets, verbose) runs
WriteStatus ==
    /\ res.op = "call"
    /\ res' = [op |-> "write_status", datasets |-> res.datasets, verbose |-> res.verbose,
               out |-> write_status(res.datasets, res.verbose, now)]
    /\ UNCHANGED <<policy, snapshots, now, first, daemonVars>>

StatusSpec == StatusInit /\ [][WriteStatus]_vars

----------------------------------------------------------------------------
(* Properties of the judgement engine *)

Sorted == SortOldestFirst(snapshots)

\* the snapshots a rule wants to keep
KeptBy(rule) == Range(snapshots) \ rejects(rule, Sorted)

\* consecutive snapshots are at least the period of the rule apart
SpacedBy(rule) ==
    \A i \in 1..(Len(Sorted) - 1) :
        Sorted[i + 1].created - Sorted[i].created >= rule.snapshot_period

Reverse(s) == [i \in 1..Len(s) |-> s[Len(s) + 1 - i]]

\* C1: judge puts every input snapshot in exactly one of its two outputs:
\* the keys of retained and the set rejected are disjoint and together they
\* are the input set.
PartitionTotality ==
    res.op = "judge" =>
        /\ (DOMAIN res.out.retained) \cap res.out.rejected = {}
        /\ (DOMAIN res.out.retained) \cup res.out.rejected = Range(snapshots)

PartitionWitness ==
    /\ res.op = "judge"
    /\ res.out.rejected # {}
    /\ DOMAIN res.out.retained # {}
    /\ Len(policy) > 1

\* C2: a snapshot is rejected iff every rule of the policy rejects it, the
\* retainers of a retained snapshot are exactly the rules that do not reject
\* it (and there is one), the result does not depend on the order in which
\* the rules are listed or evaluated, and what a rule retains in a policy is
\* what it retains alone.
DisjunctiveRetention ==
    res.op = "judge" =>
        LET j == res.out
            sorted == Sorted
            rej == [i \in DOMAIN policy |-> rejects(policy[i], sorted)]
            start == [rejected |-> {},
                      retained |-> [s \in Range(snapshots) |-> Range(policy)]]
        IN  /\ j.rejected = {s \in Range(snapshots) : \A i \in DOMAIN policy : s \in rej[i]}
            /\ \A s \in DOMAIN j.retained :
                   /\ j.retained[s] = {policy[i] : i \in {k \in DOMAIN policy : s \notin rej[k]}}
                   /\ j.retained[s] # {}
            /\ judge(Reverse(policy), snapshots) = j
            /\ JudgeRules(start, policy, sorted) = j
            /\ JudgeRules(start, Reverse(policy), sorted) = j
            /\ \A i \in DOMAIN policy :
                   {s \in DOMAIN j.retained : policy[i] \in j.retained[s]}
                       = DOMAIN judge(<<policy[i]>>, snapshots).retained

\* a snapshot the short rule keeps and the long rule rejects, one the long
\* rule keeps and the short rule rejects, and one both reject
DisjunctiveWitness ==
    /\ res.op = "judge"
    /\ Len(policy) = 2
    /\ res.out.rejected # {}
    /\ \E s \in DOMAIN res.out.retained : res.out.retained[s] = {policy[1]}
    /\ \E s \in DOMAIN res.out.retained : res.out.retained[s] = {policy[2]}

\* C3: a rule with retained_copies = k >= 1 keeps at most k snapshots, and
\* so does judge for a policy of that rule alone.
AtMostCopies ==
    /\ (res.op = "rejects" /\ res.rule.retained_copies >= 1) =>
           Cardinality(Range(snapshots) \ res.out) <= res.rule.retained_copies
    /\ (res.op = "judge" /\ Len(policy) = 1 /\ policy[1].retained_copies >= 1) =>
           Cardinality(DOMAIN res.out.retained) <= policy[1].retained_copies

\* Phase 1 cut something and Phase 2 rejected something of the bounded set
AtMostCopiesWitness ==
    /\ res.op = "rejects"
    /\ res.rule.retained_copies >= 1
    /\ Len(res.bounded) < Len(snapshots)
    /\ Range(res.bounded) \cap res.out # {}
    /\ Cardinality(Range(snapshots) \ res.out) = res.rule.retained_copies

\* C4 as stated: when the sweep of the whole input counts at most k
\* snapshots, the bounded set of Phase 1 holds at most k snapshots.
BoundedSetAtMostCopies ==
    (res.op = "rejects" /\ Considered(Sorted, 0, res.rule) <= res.rule.retained_copies) =>
        Len(res.bounded) <= res.rule.retained_copies

\* C4, amended: when the sweep of the whole input counts at most k snapshots,
\* the bounded set of Phase 1 is the whole input: the sweep over it counts at
\* most k snapshots, while it may hold more than k snapshots.
BoundedSetIsWholeInput ==
    (res.op = "rejects" /\ Considered(Sorted, 0, res.rule) <= res.rule.retained_copies) =>
        /\ res.bounded = Sorted
        /\ Considered(res.bounded, 0, res.rule) <= res.rule.retained_copies

BoundedSetWitness ==
    /\ res.op = "rejects"
    /\ Considered(Sorted, 0, res.rule) = res.rule.retained_copies
    /\ Len(res.bounded) > res.rule.retained_copies
    /\ res.rule.retained_copies >= 1

\* C5: a rule whose retained_copies is at least the number of snapshots
\* rejects nothing when consecutive snapshots are at least its period apart,
\* however long the gaps, and a policy holding such a rule rejects nothing.
GapRecovery ==
    /\ (res.op = "rejects" /\ res.rule.retained_copies >= Len(snapshots)
            /\ SpacedBy(res.rule)) => res.out = {}
    /\ (res.op = "judge" /\ \E i \in DOMAIN policy :
            policy[i].retained_copies >= Len(snapshots) /\ SpacedBy(policy[i]))
           => res.out.rejected = {}

\* a gap of two periods or more, then a snapshot exactly one period later
GapRecoveryWitness ==
    /\ res.op = "rejects"
    /\ Len(snapshots) = 3
    /\ res.rule.retained_copies >= 3
    /\ Sorted[2].created - Sorted[1].created >= 2 * res.rule.snapshot_period
    /\ Sorted[3].created - Sorted[2].created = res.rule.snapshot_period
    /\ res.out = {}

RuleNextDue ==
    res.op = "rule_next_snapshot_in" =>
        LET bounded == Range(not_too_old(Sorted, res.rule))
            next_at == Max({s.created : s \in bounded}) + res.rule.snapshot_period
        IN  /\ res.out.some <=> bounded # {}
            /\ res.out.some => /\ next_at > now => res.out.val = next_at - now
                               /\ next_at <= now => res.out.val = 0

\* a due time in the future, from a bounded set that Phase 1 has cut
RuleNextDueWitness ==
    /\ res.op = "rule_next_snapshot_in"
    /\ res.out.some
    /\ res.out.val > 0
    /\ Len(not_too_old(Sorted, res.rule)) < Len(snapshots)

\* C8: the policy's next_snapshot_in is the least of the rules' values, and
\* none exactly when every rule reports none.
PolicyNextDue ==
    res.op = "next_snapshot_in" =>
        LET dues == {rule_next_snapshot_in(policy[i], snapshots) : i \in DOMAIN policy}
        IN  /\ res.out.some <=> \E d \in dues : d.some
            /\ res.out.some =>
                   /\ res.out \in dues
                   /\ \A d \in dues : d.some => res.out.val <= d.val

\* two rules that report different values
PolicyNextDueWitness ==
    /\ res.op = "next_snapshot_in"
    /\ res.out.some
    /\ \E i \in DOMAIN policy :
           LET d == rule_next_snapshot_in(policy[i], snapshots)
           IN  d.some /\ d.val > res.out.val

----------------------------------------------------------------------------
(* Properties of the daemon *)

\* a dataset owes a snapshot at t: it has snapshots, and one of its rules'
\* periods has passed since every one of them
DueZero(ds, t) ==
    /\ ds.sorted_snapshots # <<>>
    /\ \E i \in DOMAIN ds.retention_policy :
           \A s \in Range(ds.sorted_snapshots) :
               s.created + ds.retention_policy[i].snapshot_period <= t

\* the datasets of this cycle's listing that owed a snapshot at wake
DueAtWake == {datasets[i].path : i \in {j \in DOMAIN datasets : DueZero(datasets[j], wokeAt)}}

\* C9 as stated: in every cycle a create request is issued for every volume
\* whose due time is exactly zero at wake (all of them by the time the
\* create loop has ended), and for no other volume.
CreatesForDueAtWake ==
    /\ created \subseteq DueAtWake
    /\ pc = "destroy" => created = DueAtWake

\* the create loop takes its step for the dataset under the cursor
Visit ==
    /\ pc = "create"
    /\ cursor <= Len(datasets)
    /\ cursor' = cursor + 1 \/ pc' = "failed"

\* C9, as the loop does it: when the create loop reaches a volume after the
\* sleep, a create request is issued for it exactly if the sandbox flag is off
\* and its due time, read at that moment, is zero; no request is issued for a
\* volume whose due time is then non-zero or absent, for any volume under the
\* sandbox flag, or for the volumes behind a failed store call.
CreatesForDueWhenReached ==
    [][created' = IF Visit
                  THEN created \cup (IF ~sandbox /\ DueZero(datasets[cursor], now)
                                     THEN {datasets[cursor].path} ELSE {})
                  ELSE IF pc = "fetch" /\ pc' = "sleep" THEN {} ELSE created]_vars

\* C9's case: the create loop has ended, and it requested a snapshot of a
\* volume that was not yet due at wake but was when the loop reached it
CreatesForDueWhenReachedWitness ==
    /\ pc = "destroy"
    /\ ~sandbox
    /\ \E v \in created : v \notin DueAtWake

\* C10 as stated: in every cycle, for every volume, the snapshots whose
\* destruction is requested are exactly judge(policy, fetched).rejected: no
\* snapshot judge retains is requested, and once the destroy loop has ended
\* with the sandbox flag off every rejected snapshot has been requested.
DestroysWhatJudgeRejects ==
    \A i \in DOMAIN datasets :
        LET fetched == datasets[i].sorted_snapshots
            rejected == judge(datasets[i].retention_policy, fetched).rejected
        IN  /\ destroyed \cap Range(fetched) \subseteq rejected
            /\ (pc = "fetch" /\ ~sandbox) => rejected \subseteq destroyed

\* what a dataset with snapshots is away from its next snapshot at t: the
\* least d >= 0 that makes it owe one at t + d
DueIn(ds, t) == Min({d \in 0..MaxPeriod : DueZero(ds, t + d)})

\* the datasets of this cycle's listing that hold a snapshot
Reporting == {i \in DOMAIN datasets : datasets[i].sorted_snapshots # <<>>}

\* C11: the sleep of a cycle is the minimum due time, read when the sleep
\* starts, over the volumes that report one, and exactly 10 minutes when no
\* volume reports one (none has a snapshot, or none is configured).
SleepsUntilFirstDue ==
    pc \in {"create", "destroy"} =>
        slept = IF Reporting = {} THEN 10 * 60
                ELSE Min({DueIn(datasets[i], wokeAt - slept) : i \in Reporting})

\* C11's case: the loop slept a non-zero time for the earlier of two volumes
\* whose due times differed
SleepsUntilFirstDueWitness ==
    /\ pc = "create"
    /\ slept > 0
    /\ \E i, j \in Reporting :
           /\ DueIn(datasets[i], wokeAt - slept) = slept
           /\ DueIn(datasets[j], wokeAt - slept) > slept

\* C12: with the sandbox flag set no mutating store call is ever issued: no
\* step of the daemon or of the wizard changes the snapshots or the policies
\* of the pool, and no create, destroy or set-policy request is recorded.
SandboxMutatesNothing ==
    [][sandbox => /\ store' = store
                  /\ conf' = conf
                  /\ created' = {}
                  /\ destroyed' = {}
                  /\ ~wizard'.issued.some]_vars

\* C12's case: under the sandbox flag the daemon has gone through a cycle in
\* which a volume was due and a snapshot was rejected, and requested nothing
SandboxMutatesNothingWitness ==
    /\ sandbox
    /\ pc = "destroy"
    /\ cursor > Len(datasets)
    /\ pending = <<>>
    /\ DueAtWake # {}
    /\ \E i \in DOMAIN datasets :
           checker_rejected(datasets[i].retention_policy,
                            datasets[i].sorted_snapshots, wokeAt) # <<>>
    /\ created = {}
    /\ destroyed = {}

\* C13: destroy_snapshot called with an identifier that holds no '@' returns
\* an error and runs no zfs command, and every destroy command it runs is for
\* a name that holds '@'.
DestroyOnlySnapshots ==
    res.op = "destroy_snapshot" =>
        /\ "@" \notin Range(res.name) => ~res.out.ok /\ res.out.commands = <<>>
        /\ \A i \in DOMAIN res.out.commands : "@" \in Range(res.out.commands[i][2])

\* C13's case: a dataset name was handed to destroy_snapshot while zfs would
\* have destroyed it, and the call came back with an error
DestroyOnlySnapshotsWitness ==
    /\ res.op = "destroy_snapshot"
    /\ res.name = <<"tank">>
    /\ res.zfs_ok
    /\ ~res.out.ok

\* C14: the loop never suppresses a store error. A destroy request that
\* leaves its snapshot in the pool, a create request that adds no snapshot and
\* a listing that brings no datasets each end the loop in that step, and once
\* it has ended no further step is taken: no create or destroy is requested
\* after the failing call and no next cycle begins.
StoreErrorsStopTheLoop ==
    [][/\ pc # "failed"
       /\ (\E s \in destroyed' \ destroyed : s \in Range(store'[dataset_of(s)]))
              => pc' = "failed"
       /\ (\E v \in created' \ created : store'[v] = store[v]) => pc' = "failed"
       /\ (pc = "fetch" /\ pc' # "sleep") => pc' = "failed"]_vars

\* C14's case: a destroy failed, the loop has stopped, and a rejected snapshot
\* of a volume the loop had not reached yet was never requested
StoreErrorsStopTheLoopWitness ==
    /\ pc = "failed"
    /\ \E s \in destroyed : s \in Range(store[dataset_of(s)])
    /\ cursor <= Len(datasets)
    /\ \E s \in Range(checker_rejected(datasets[cursor].retention_policy,
                                        datasets[cursor].sorted_snapshots, now)) :
           s \notin destroyed /\ s \in Range(store[dataset_of(s)])

\* ds lists the pool as it is: each dataset that carries a policy once, with
\* that policy and with the snapshots the pool holds for it
ListsThePool(ds) ==
    /\ {ds[i].path : i \in DOMAIN ds} = DOMAIN conf
    /\ Len(ds) = Cardinality(DOMAIN conf)
    /\ \A i \in DOMAIN ds : /\ ds[i].retention_policy = conf[ds[i].path]
                            /\ ds[i].sorted_snapshots = store[ds[i].path]

\* C15: every cycle begins with one fresh listing, and its decisions come
\* from that listing only. The loop sleeps only after a listing, a finished
\* cycle leads to the next listing, the listing taken is the pool as it then
\* is and stays the cycle's listing until the next one, every create request
\* is for a volume that owes a snapshot by that listing, and every destroy
\* request is for a snapshot in that listing.
FreshListingEachCycle ==
    [][/\ pc' = "sleep" => pc = "fetch" /\ ListsThePool(datasets')
       /\ (pc = "destroy" /\ pc' \notin {"destroy", "failed"}) => pc' = "fetch"
       /\ pc # "fetch" => datasets' = datasets
       /\ \A v \in created' \ created :
              \E i \in DOMAIN datasets : datasets[i].path = v /\ DueZero(datasets[i], now)
       /\ \A s \in destroyed' \ destroyed :
              \E i \in DOMAIN datasets : s \in Range(datasets[i].sorted_snapshots)]_vars

\* C15's case: in a later cycle the loop requested a snapshot of a volume
\* whose listing held the snapshot an earlier cycle had made
FreshListingEachCycleWitness ==
    /\ pc = "destroy"
    /\ \E i \in DOMAIN datasets :
           /\ datasets[i].path \in created
           /\ Len(datasets[i].sorted_snapshots) >= 2

\* C16 as stated: every rule that parsing constructs has a period above
\* zero; a token whose period is zero is refused.
ParsedPeriodsPositive ==
    (res.op = "from_str" /\ res.out.ok) =>
        \A i \in DOMAIN res.out.val : res.out.val[i].snapshot_period > 0

\* C17 as stated: after any sequence of wizard operations the policy handed
\* to store_and_apply_retention_policy has at least one rule.
StoredPolicyHasARule ==
    wizard.issued.some => Len(wizard.issued.val.policy) >= 1

\* a token is <integer amount><one unit letter of s,m,h,d,w,y><integer copies>
WellFormedToken(token) ==
    \E u \in DOMAIN token :
        /\ token[u] \in {"s", "m", "h", "d", "w", "y"}
        /\ 1 < u /\ u < Len(token)
        /\ \A i \in DOMAIN token \ {u} : token[i] \in Range(Digits)

\* the stretches of str between its colons, by their first and last index
Stretches(str) ==
    {<<i, j>> \in (DOMAIN str) \X (DOMAIN str) :
        /\ i <= j
        /\ \A n \in i..j : str[n] # ":"
        /\ i = 1 \/ str[i - 1] = ":"
        /\ j = Len(str) \/ str[j + 1] = ":"}

\* str holds a rule in every place: it is not empty, no colon stands first,
\* last or next to another colon, and every stretch is a well-formed token
WellFormedPolicy(str) ==
    /\ str # <<>>
    /\ str[1] # ":" /\ str[Len(str)] # ":"
    /\ \A i \in 1..(Len(str) - 1) : ~(str[i] = ":" /\ str[i + 1] = ":")
    /\ \A st \in Stretches(str) : WellFormedToken(SubSeq(str, st[1], st[2]))

ZeroHistoryStaysEmpty ==
    [][/\ \A v \in DOMAIN store :
              store[v] = <<>> => store'[v] = <<>> /\ v \notin created'
       /\ (pc = "sleep" /\ \A i \in DOMAIN datasets : datasets[i].sorted_snapshots = <<>>)
              => slept' = 10 * 60]_vars

\* C19's case: with the sandbox flag off a cycle has ended in which another
\* volume got its snapshot, and a listed volume without snapshots got none
ZeroHistoryStaysEmptyWitness ==
    /\ pc = "fetch"
    /\ ~sandbox
    /\ created # {}
    /\ \E i \in DOMAIN datasets :
           /\ datasets[i].sorted_snapshots = <<>>
           /\ store[datasets[i].path] = <<>>

\* the n newest of the snapshots
Newest(n) == {Sorted[i] : i \in (Len(Sorted) - n + 1)..Len(Sorted)}

\* C20: for a policy of one rule (period p, k >= 1 copies) and snapshots
\* whose consecutive timestamps are at least p apart, judge retains exactly
\* the min(k, n) newest snapshots and rejects every older one.
KeepsNewestCopies ==
    (/\ res.op = "judge"
     /\ Len(policy) = 1
     /\ policy[1].retained_copies >= 1
     /\ SpacedBy(policy[1])) =>
        LET kept == Newest(Min({policy[1].retained_copies, Len(snapshots)}))
        IN  /\ DOMAIN res.out.retained = kept
            /\ res.out.rejected = Range(snapshots) \ kept

\* C20's case: three snapshots a period or more apart were judged by one rule
\* of two copies, and the oldest was rejected
KeepsNewestCopiesWitness ==
    /\ res.op = "judge"
    /\ Len(policy) = 1
    /\ policy[1].retained_copies = 2
    /\ SpacedBy(policy[1])
    /\ Len(snapshots) = 3
    /\ res.out.rejected = {Sorted[1]}

\* the buckets of a policy in the order they are filled: rule by rule, and
\* for each rule i = 0 .. retained_copies - 1
RECURSIVE Buckets(_)
Buckets(rules) ==
    IF rules = <<>> THEN <<>>
    ELSE [i \in 1..Head(rules).retained_copies |-> [rule |-> Head(rules), i |-> i - 1]]
         \o Buckets(Tail(rules))

\* the age of a snapshot as the checker reads it
Age(s) == IF now >= s.created THEN now - s.created ELSE 0

\* the positions of the list that the first n buckets exempt: a bucket takes
\* the first position, not taken before, whose age lies in [i*p, (i+1)*p)
RECURSIVE Exempted(_)
Exempted(n) ==
    IF n = 0 THEN {}
    ELSE LET before == Exempted(n - 1)
             b == Buckets(policy)[n]
             fits == {j \in (DOMAIN snapshots) \ before :
                         /\ Age(snapshots[j]) >= b.i * b.rule.snapshot_period
                         /\ Age(snapshots[j]) < (b.i + 1) * b.rule.snapshot_period}
         IN  IF fits = {} THEN before
             ELSE before \cup {CHOOSE j \in fits : \A o \in fits : j <= o}

\* the list without the positions in gone, in its order
Without(list, gone) ==
    LET left == {j \in DOMAIN list : j \notin gone}
        Nth(n) == CHOOSE j \in left : Cardinality({o \in left : o < j}) = n - 1
    IN  [n \in 1..Cardinality(left) |-> list[Nth(n)]]

-----------------------------------------------------------------------------
(* Properties of the status report *)

\* C22: write_status completes without panicking, in verbose and in terse
\* mode, for every list of configured datasets, a dataset with no snapshots
\* and the empty list included.
StatusNeverPanics ==
    res.op = "write_status" => ~res.out.panicked

-----------------------------------------------------------------------------
(* Properties of the engine under repeated judgement *)

\* C23: pruning converges in one step: for every policy and snapshot list,
\* judging the retained snapshots again rejects nothing.
PruningConverges ==
    (res.op = "judge" /\ res.pruned) => res.out.rejected = {}

-----------------------------------------------------------------------------
(* Further properties of the judgement engine *)

\* the snapshots the greedy oldest-first sweep with spacing p counts over the
\* whole list: the oldest, and then each first one that is at least p later
\* than the one counted before it
RECURSIVE Spaced(_, _, _)
Spaced(i, last, p) ==
    IF i > Len(Sorted) THEN 0
    ELSE IF last < 0 \/ Sorted[i].created >= last + p
         THEN 1 + Spaced(i + 1, Sorted[i].created, p)
         ELSE Spaced(i + 1, last, p)

\* C24: for a single rule (p, k >= 1), if the greedy oldest-first p-spaced
\* sweep over the whole list counts at least k snapshots, the rule retains
\* exactly k snapshots.
KeepsAllowedCopies ==
    (/\ res.op = "rejects"
     /\ res.rule.retained_copies >= 1
     /\ Spaced(1, -1, res.rule.snapshot_period) >= res.rule.retained_copies)
    => Cardinality(Range(snapshots) \ res.out) = res.rule.retained_copies

\* C24's case: the sweep over three snapshots counted three, the rule may
\* keep two, and rejects() returned
KeepsAllowedCopiesWitness ==
    /\ res.op = "rejects"
    /\ res.rule.retained_copies = 2
    /\ Len(snapshots) = 3
    /\ Spaced(1, -1, res.rule.snapshot_period) = 3
    /\ Cardinality(res.out) = 1

\* C25: judge never rejects everything: for every policy and every non-empty
\* snapshot list (timestamps at or after the epoch) at least one snapshot is
\* retained.
JudgeRetainsSome ==
    (res.op = "judge" /\ snapshots # <<>>) => DOMAIN res.out.retained # {}

\* C25's case: judge ran a policy whose rules all keep zero copies on a list
\* of three snapshots, and rejected some of them
JudgeRetainsSomeWitness ==
    /\ res.op = "judge"
    /\ \A i \in DOMAIN policy : policy[i].retained_copies = 0
    /\ Len(snapshots) = 3
    /\ res.out.rejected # {}
    /\ DOMAIN res.out.retained # {}

\* C26: a snapshot taken when due is not pruned: if the newest snapshot is at
\* least the shortest period of the policy later than the second newest, or
\* is the only one, judge retains it.
DueSnapshotIsKept ==
    (/\ res.op = "judge"
     /\ snapshots # <<>>
     /\ Len(snapshots) >= 2 =>
            snapshots[1].created - snapshots[2].created
                >= Min({policy[i].snapshot_period : i \in DOMAIN policy}))
    => snapshots[1] \in DOMAIN res.out.retained

\* C26's case: the newest snapshot came exactly the shortest period after the
\* one before it, the longer rule rejects it, and judge ran and rejected
\* another snapshot
DueSnapshotIsKeptWitness ==
    /\ res.op = "judge"
    /\ Len(policy) = 2
    /\ Len(snapshots) = 3
    /\ snapshots[1].created - snapshots[2].created = policy[1].snapshot_period
    /\ snapshots[1] \in rejects(policy[2], Sorted)
    /\ res.out.rejected # {}
    /\ snapshots[1] \in DOMAIN res.out.retained

\* the engine's list as the list of one volume the daemon holds
AsDataset ==
    [path |-> Volumes[1],
     retention_policy |-> policy,
     sorted_snapshots |-> [i \in DOMAIN snapshots |->
                              Snap(Volumes[1], snapshots[i].created)]]

ZeroCopiesKeepNothing ==
    /\ (res.op = "rejects" /\ res.rule.retained_copies = 0) =>
           res.out = Range(snapshots)
    /\ (res.op = "judge" /\ \A i \in DOMAIN policy : policy[i].retained_copies = 0) =>
           res.out.rejected = Range(snapshots)

-----------------------------------------------------------------------------
(* Further properties of the daemon *)

\* the snapshots of the listing the cycle works on
Listed == UNION {Range(datasets[i].sorted_snapshots) : i \in DOMAIN datasets}

\* the snapshots the pool holds that the listing does not: made in this cycle
MadeInCycle == (UNION {Range(store[v]) : v \in DOMAIN store}) \ Listed

\* C29: within one cycle every create request is issued before any destroy
\* request, and the destroy requests are for snapshots of the listing fetched
\* before the sleep, so no snapshot made in a cycle is requested for
\* destruction in that cycle.
CreatesBeforeDestroys ==
    [][/\ created' # created => destroyed' = {}
       /\ \A s \in destroyed' \ destroyed :
              /\ pc = "destroy"
              /\ s \in Listed
              /\ s \notin MadeInCycle']_vars

\* C29's case: in one cycle the daemon made a snapshot of a volume and then
\* requested the destruction of an older snapshot of the same volume
CreatesBeforeDestroysWitness ==
    /\ pc = "destroy"
    /\ ~sandbox
    /\ \E s \in destroyed :
           /\ dataset_of(s) \in created
           /\ \E n \in MadeInCycle : dataset_of(n) = dataset_of(s)

====
